---- MODULE Spec2Model ----
(***************************************************************************)
(* A model of the Hello Naz page controller (src/script.js).               *)
(*                                                                         *)
(* The controller is a set of callbacks that run to completion on one UI   *)
(* thread: event handlers (click, keydown, resize, mousemove,              *)
(* visibilitychange), timer callbacks (setTimeout, setInterval) and paint  *)
(* frame callbacks (requestAnimationFrame).  Each action below is one      *)
(* callback, translated from its code.  The code never reads the clock;    *)
(* time is modelled only through the delays of its timers: every pending   *)
(* timer carries the milliseconds left until it is due, a timer runs only  *)
(* when that is 0, and time cannot pass a due timer.                       *)
(***************************************************************************)
EXTENDS Integers, Sequences, FiniteSets, TLC

(***************************************************************************)
(* Program constants.                                                      *)
(***************************************************************************)
animationDuration == 300

typewriterSpeed == 100

TypewriterDelay == 500

SubtitleDelay == 1000

ButtonDelay == 1500

particleCount == 50

ResizeWait == 250

MouseMoveWait == 16

ScaleBackDelay == 150

RippleLifetime == 600

NotificationVisible == 2000

NotificationFade == 300

THEMES ==
    << [primary |-> "#667eea", secondary |-> "#764ba2", accent |-> "#f093fb"],
       [primary |-> "#4facfe", secondary |-> "#00f2fe", accent |-> "#43e97b"],
       [primary |-> "#fa709a", secondary |-> "#fee140", accent |-> "#a8edea"],
       [primary |-> "#ffecd2", secondary |-> "#fcb69f", accent |-> "#667eea"],
       [primary |-> "#a8edea", secondary |-> "#fed6e3", accent |-> "#ff9a9e"] >>

\* THEMES[i] of the code, whose arrays count from 0.
ThemeAt(i) == THEMES[i + 1]

(***************************************************************************)
(* Bounds of the model.                                                    *)
(***************************************************************************)
\* Notification objects (in the page, or awaited by a callback) there may be
\* for the public showNotification to be called once more.
MaxNotifications == 2

\* Notification objects there may be for an action trigger to be accepted.
MaxTriggered == 1

\* The count of theme-cycle steps since the last reset is kept up to this.
MaxCycles == 7

\* The longest title text.
MaxTitleLength == 3

\* The events of one burst on a debounced handler.
MaxBurst == 3

\* The resolution at which input events are placed in time: time passes up to
\* the next due timer in steps of at most Quantum milliseconds, and an input
\* may come after each step.
Quantum == NotificationVisible \div 4

\* The event of a pointer click, and the synthesized event of a Space/Enter
\* activation, { currentTarget, preventDefault }.  The place the ripple is
\* given from the event's coordinates is not modelled.
PointerEvents == { "click" }

KeyboardEvent == "synthesized"

ClickMessage == "Theme changed!"

Messages == { "Saved" }

\* Theme triples an external caller hands to the public applyTheme.
CallerThemes ==
    { [primary |-> "#000000", secondary |-> "#111111", accent |-> "#222222"] }

\* The characters of a title text.
TitleCharacters == { "N", "a", "z" }

\* The sizes of the window and the positions of the pointer; the parallax
\* offsets of these are whole numbers.
WindowSizes == { [ innerWidth |-> 400, innerHeight |-> 400 ],
                 [ innerWidth |-> 800, innerHeight |-> 400 ] }

PointerPositions == { [ clientX |-> x, clientY |-> y ] : x \in { 0, 200 }, y \in { 200 } }

\* The outcomes of one run of Math.random() over all particles.
ParticleDraws == { "one draw", "another draw" }

\* The debounced listeners.
Debouncers == { "resize", "mousemove" }

Keys == { " ", "Enter", "Escape", "Tab" }

\* The elements cacheElements looks up, and those init() cannot do without.
ElementNames == { "container", "title", "subtitle", "interactiveBtn", "particles" }

Essential == { "container", "title" }

\* The elements of the entrance sequence that carry an inline opacity.
Entering == { "container", "subtitle", "interactiveBtn" }

\* The listeners the script registers, by event; "keydown Tab" and
\* "mousedown" are those of setupAccessibility, "error" that of the script.
ListenerNames == { "click", "keydown", "resize", "mousemove", "visibilitychange",
                   "keydown Tab", "mousedown", "error" }

KeyTargets == { "interactiveBtn", "body" }

VARIABLES
    currentThemeIndex,  \* let currentThemeIndex
    isAnimating,        \* let isAnimating
    hidden,             \* document.hidden
    cssVars,            \* --primary-color, --secondary-color, --accent-color of body
    playState,          \* body.style.animationPlayState
    btnTransform,       \* interactiveBtn.style.transform
    cycling,            \* whether the interval of startColorCycle is set
    timers,             \* pending setTimeout callbacks
    frames,             \* pending requestAnimationFrame callbacks
    ripples,            \* span.ripple children of the button
    notifications,      \* div.notification objects, in the page or awaited by a callback
    cycleCount,         \* history: theme-cycle steps since start or the last reset
    last,               \* history: the callback that ran last, "" once time has passed
    title,              \* the h1: its textContent, its typewriter-complete class
    typewriter,         \* text, index and timer of typewriterEffect
    ticks,              \* history: runs of the typewriter interval
    debounced,          \* the variable timeout of each debounced listener
    window,             \* innerWidth and innerHeight
    containerTransform, \* container.style.transform
    particles,          \* the particle elements and their positions
    bursts,             \* history: the events and calls of each debounced listener
    document,           \* the elements the page has, of ElementNames
    elements,           \* let elements: the elements cacheElements found
    listeners,          \* how many times each listener is registered
    phase,              \* "loading" before init(), then "ready" or "failed"
    reported,           \* calls of console.error
    revealed,           \* inline opacity and animation class of the entering elements
    subtitleTransform,  \* subtitle.style.transform
    entrance            \* history: the steps of the entrance sequence, in order

vars == << currentThemeIndex, isAnimating, hidden, cssVars, playState, btnTransform,
           cycling, timers, frames, ripples, notifications, cycleCount, last,
           title, typewriter, ticks,
           debounced, window, containerTransform, particles, bursts,
           document, elements, listeners, phase, reported,
           revealed, subtitleTransform, entrance >>

\* The variables of the controller proper, and those of the title.
controllerVars == << currentThemeIndex, isAnimating, hidden, cssVars, playState,
                     btnTransform, cycling, frames, ripples, notifications,
                     cycleCount >>

titleVars == << title, typewriter, ticks >>

pointerVars == << debounced, window, containerTransform, particles >>

\* What init() sets up, and the state of the entrance sequence.
setupVars == << document, elements, listeners, phase, reported >>

entranceVars == << revealed, subtitleTransform, entrance >>

\* The state of the program itself, without the history variables.
programVars == << currentThemeIndex, isAnimating, hidden, cssVars, playState,
                  btnTransform, cycling, timers, frames, ripples, notifications >>

themeVars == << currentThemeIndex, cssVars, cycleCount >>

(***************************************************************************)
(* Timers.  A timer is [id, kind, due, arg, args]: the handle setTimeout   *)
(* returned, the callback, the milliseconds until it is due, and the       *)
(* object and the event the callback closes over.  A handle is not given   *)
(* out again while a variable holds it.                                    *)
(***************************************************************************)
Event(type, clientX, clientY) ==
    [ type |-> type, clientX |-> clientX, clientY |-> clientY ]

NoArgs == Event("", 0, 0)

MinOf(S) == CHOOSE x \in S : \A y \in S : x <= y

\* The handles the program's variables hold.
Held == { typewriter.timer } \cup { debounced[fn] : fn \in Debouncers }

FreshId(T, held) ==
    LET used == { t.id : t \in T } \cup held
    IN  MinOf({ i \in 1..(Cardinality(used) + 1) : i \notin used })

NewTimerId(T) == FreshId(T, Held)

setTimeoutAs(T, id, kind, wait, arg, args) ==
    T \cup { [ id |-> id, kind |-> kind, due |-> wait, arg |-> arg, args |-> args ] }

setTimeoutWith(T, kind, wait, arg, args) ==
    setTimeoutAs(T, NewTimerId(T), kind, wait, arg, args)

setTimeout(T, kind, wait, arg) == setTimeoutWith(T, kind, wait, arg, NoArgs)

\* clearTimeout(timeout)
clearTimeout(T, timeout) == { t \in T : t.id # timeout }

Due(kind) == { t \in timers : t.kind = kind /\ t.due = 0 }

(***************************************************************************)
(* Theme cycling.                                                          *)
(***************************************************************************)
NoTheme == [primary |-> "", secondary |-> "", accent |-> ""]

\* applyTheme(theme): the three setProperty calls on the body.
applyTheme(theme) ==
    cssVars' = [primary |-> theme.primary, secondary |-> theme.secondary,
                accent |-> theme.accent]

\* History only: one more cycle step since the last reset.
Counted(n) == IF n < MaxCycles THEN n + 1 ELSE MaxCycles

\* cycleTheme with the wrong modulus.
cycleThemeShortPalette ==
    /\ currentThemeIndex' = (currentThemeIndex + 1) % (Len(THEMES) - 1)
    /\ applyTheme(ThemeAt(currentThemeIndex'))
    /\ cycleCount' = Counted(cycleCount)

\* cycleTheme without the modulus: past the palette THEMES[i] is undefined
\* and applyTheme throws on it, after the index was assigned.
cycleThemeNoWrap ==
    /\ currentThemeIndex' = currentThemeIndex + 1
    /\ IF currentThemeIndex' < Len(THEMES)
       THEN applyTheme(ThemeAt(currentThemeIndex'))
       ELSE UNCHANGED cssVars
    /\ cycleCount' = Counted(cycleCount)

cycleTheme ==
    /\ currentThemeIndex' = (currentThemeIndex + 1) % Len(THEMES)
    /\ applyTheme(ThemeAt(currentThemeIndex'))
    /\ cycleCount' = Counted(cycleCount)

(***************************************************************************)
(* Ripples and notifications.                                              *)
(***************************************************************************)
NewId(used) == MinOf({ i \in 1..(Cardinality(used) + 1) : i \notin used })

\* createRippleEffect(event), on the ripples R and timers T: the ripples and
\* timers after it.
\* createRippleEffect that sets no timeout for the removal.
createRippleEffectKept(R, T, event) ==
    LET used == { r.id : r \in R } \cup
                { t.arg : t \in { u \in T : u.kind = "rippleRemove" } }
        id == NewId(used)
    IN  [ ripples |-> R \cup { [id |-> id] }, timers |-> T ]

\* createRippleEffect(event), on the ripples R and timers T: what they are
\* after it.
createRippleEffect(R, T, event) ==
    LET used == { r.id : r \in R } \cup
                { t.arg : t \in { u \in T : u.kind = "rippleRemove" } }
        id == NewId(used)
    IN  [ ripples |-> R \cup { [id |-> id] },
          timers |-> setTimeout(T, "rippleRemove", RippleLifetime, id) ]

\* The age of a notification is kept up to the time its removal is due.
MaxAge == NotificationVisible + NotificationFade

\* showNotification that reuses a notification with the same message that is
\* still in the page.
showNotificationOnce(N, F, T, message) ==
    IF \E m \in DOMAIN N : N[m].inDOM /\ N[m].message = message
    THEN [ notifications |-> N, frames |-> F, timers |-> T ]
    ELSE LET n == NewId(DOMAIN N)
         IN  [ notifications |->
                   N @@ (n :> [ inDOM |-> TRUE, show |-> FALSE, message |-> message,
                                age |-> 0, log |-> << "inserted" >> ]),
               frames |-> F \cup { [kind |-> "notifShow", arg |-> n] },
               timers |-> setTimeout(T, "notifHide", NotificationVisible, n) ]

\* showNotification(message), on the notifications N, frame callbacks F and
\* timers T: what they are after it.
showNotification(N, F, T, message) ==
    LET n == NewId(DOMAIN N)
    IN  [ notifications |->
              N @@ (n :> [ inDOM |-> TRUE, show |-> FALSE, message |-> message,
                           age |-> 0, log |-> << "inserted" >> ]),
          frames |-> F \cup { [kind |-> "notifShow", arg |-> n] },
          timers |-> setTimeout(T, "notifHide", NotificationVisible, n) ]

\* The notifications a callback still awaits or the page still holds.
Awaited(N, F, T) ==
    { n \in DOMAIN N :
        \/ N[n].inDOM
        \/ \E t \in T : t.kind \in { "notifHide", "notifRemove" } /\ t.arg = n
        \/ \E f \in F : f.kind = "notifShow" /\ f.arg = n }

\* Notification objects nothing refers to any more are dropped.
Collect(N, F, T) == [ n \in Awaited(N, F, T) |-> N[n] ]

(***************************************************************************)
(* The interactive action.                                                 *)
(***************************************************************************)
\* handleInteractiveClick without its guard on isAnimating.
handleInteractiveClickUnguarded(event) ==
    /\ Cardinality(DOMAIN notifications) < MaxTriggered + 1
    /\ isAnimating' = TRUE
    /\ btnTransform' = "scale(0.95)"
    /\ cycleTheme
    /\ LET scaled == setTimeout(timers, "scaleBack", ScaleBackDelay, 0)
           rippled == createRippleEffect(ripples, scaled, event)
           shown == showNotification(notifications, frames, rippled.timers,
                                     ClickMessage)
       IN  /\ ripples' = rippled.ripples
           /\ notifications' = shown.notifications
           /\ frames' = shown.frames
           /\ timers' = setTimeout(shown.timers, "release", animationDuration, 0)
    /\ UNCHANGED << hidden, playState, cycling >>

\* handleInteractiveClick(event).  A trigger that would be accepted comes only
\* while fewer than MaxTriggered notification objects exist.
handleInteractiveClick(event) ==
    IF isAnimating
    THEN UNCHANGED << programVars, cycleCount >>
    ELSE /\ Cardinality(DOMAIN notifications) < MaxTriggered
         /\ isAnimating' = TRUE
         /\ btnTransform' = "scale(0.95)"
         /\ cycleTheme
         /\ LET scaled == setTimeout(timers, "scaleBack", ScaleBackDelay, 0)
                rippled == createRippleEffect(ripples, scaled, event)
                shown == showNotification(notifications, frames, rippled.timers,
                                          ClickMessage)
            IN  /\ ripples' = rippled.ripples
                /\ notifications' = shown.notifications
                /\ frames' = shown.frames
                /\ timers' = setTimeout(shown.timers, "release", animationDuration, 0)
         /\ UNCHANGED << hidden, playState, cycling >>

\* handleKeydown whose Escape respects the cooldown, as the action does.
handleKeydownEscapeGuarded(key, target) ==
    CASE key \in { " ", "Enter" } ->
            IF target = "interactiveBtn"
            THEN handleInteractiveClick(KeyboardEvent)
            ELSE UNCHANGED << programVars, cycleCount >>
      [] key = "Escape" /\ ~isAnimating ->
            /\ currentThemeIndex' = 0
            /\ applyTheme(ThemeAt(currentThemeIndex'))
            /\ cycleCount' = 0
            /\ UNCHANGED << isAnimating, hidden, playState, btnTransform, cycling, timers,
                            frames, ripples, notifications >>
      [] OTHER -> UNCHANGED << programVars, cycleCount >>

\* handleKeydown whose Escape resets the index and applies no theme.
handleKeydownIndexOnly(key, target) ==
    CASE key \in { " ", "Enter" } ->
            IF target = "interactiveBtn"
            THEN handleInteractiveClick(KeyboardEvent)
            ELSE UNCHANGED << programVars, cycleCount >>
      [] key = "Escape" ->
            /\ currentThemeIndex' = 0
            /\ cycleCount' = 0
            /\ UNCHANGED << cssVars, isAnimating, hidden, playState, btnTransform,
                            cycling, timers, frames, ripples, notifications >>
      [] OTHER -> UNCHANGED << programVars, cycleCount >>

\* handleKeydown(event), for event.key and event.target.
handleKeydown(key, target) ==
    CASE key \in { " ", "Enter" } ->
            IF target = "interactiveBtn"
            THEN handleInteractiveClick(KeyboardEvent)
            ELSE UNCHANGED << programVars, cycleCount >>
      [] key = "Escape" ->
            /\ currentThemeIndex' = 0
            /\ applyTheme(ThemeAt(currentThemeIndex'))
            /\ cycleCount' = 0
            /\ UNCHANGED << isAnimating, hidden, playState, btnTransform, cycling, timers,
                            frames, ripples, notifications >>
      [] OTHER -> UNCHANGED << programVars, cycleCount >>

\* handleVisibilityChange(), once document.hidden has changed.
handleVisibilityChange ==
    playState' = IF hidden' THEN "paused" ELSE "running"

(***************************************************************************)
(* Input events and calls of the public handle window.HelloNazApp.         *)
(***************************************************************************)
\* Whether addEventListener was called for the listener.
Registered(listener) == listeners[listener] > 0

Click ==
    \E ev \in PointerEvents :
        /\ Registered("click")
        /\ handleInteractiveClick(ev)
        /\ UNCHANGED << titleVars, pointerVars, bursts, setupVars, entranceVars >>
        /\ last' = IF isAnimating THEN "click ignored" ELSE "click"

Keydown ==
    \E key \in Keys, target \in KeyTargets :
        /\ Registered("keydown")
        /\ handleKeydown(key, target)
        /\ UNCHANGED << titleVars, pointerVars, bursts, setupVars, entranceVars >>
        /\ last' = CASE key = "Escape" -> "Escape"
                     [] key \in { " ", "Enter" } /\ target # "interactiveBtn" ->
                            "activation elsewhere"
                     [] key \in { " ", "Enter" } /\ isAnimating -> "activation ignored"
                     [] key \in { " ", "Enter" } -> "activation"
                     [] OTHER -> "other key"

VisibilityChange ==
    /\ hidden' = ~hidden
    /\ IF Registered("visibilitychange")
       THEN handleVisibilityChange
       ELSE UNCHANGED playState
    /\ UNCHANGED << titleVars, pointerVars, bursts, setupVars, entranceVars >>
    /\ last' = "visibilitychange"
    /\ UNCHANGED << currentThemeIndex, isAnimating, cssVars, btnTransform, cycling, timers,
                    frames, ripples, notifications, cycleCount >>

\* The public cycleTheme under the guard of the interval callback.
PublicCycleThemeGuarded ==
    /\ IF ~isAnimating /\ ~hidden THEN cycleTheme ELSE UNCHANGED themeVars
    /\ UNCHANGED << titleVars, pointerVars, bursts, setupVars, entranceVars >>
    /\ last' = "HelloNazApp.cycleTheme"
    /\ UNCHANGED << isAnimating, hidden, playState, btnTransform, cycling, timers, frames,
                    ripples, notifications >>

\* window.HelloNazApp.cycleTheme()
PublicCycleTheme ==
    /\ cycleTheme
    /\ UNCHANGED << titleVars, pointerVars, bursts, setupVars, entranceVars >>
    /\ last' = "HelloNazApp.cycleTheme"
    /\ UNCHANGED << isAnimating, hidden, playState, btnTransform, cycling, timers, frames,
                    ripples, notifications >>

PublicShowNotification ==
    \E message \in Messages :
        /\ Cardinality(DOMAIN notifications) < MaxNotifications
        /\ LET shown == showNotification(notifications, frames, timers, message)
           IN  /\ notifications' = shown.notifications
               /\ frames' = shown.frames
               /\ timers' = shown.timers
        /\ UNCHANGED << titleVars, pointerVars, bursts, setupVars, entranceVars >>
        /\ last' = "HelloNazApp.showNotification"
        /\ UNCHANGED << currentThemeIndex, isAnimating, hidden, cssVars, playState,
                        btnTransform, cycling, ripples, cycleCount >>

\* The public applyTheme that also takes the index back to the start.
PublicApplyThemeFromStart ==
    \E theme \in CallerThemes :
        /\ applyTheme(theme)
        /\ currentThemeIndex' = 0
        /\ UNCHANGED << titleVars, pointerVars, bursts, setupVars, entranceVars >>
        /\ last' = "HelloNazApp.applyTheme"
        /\ UNCHANGED << isAnimating, hidden, playState, btnTransform, cycling, timers,
                        frames, ripples, notifications, cycleCount >>

\* window.HelloNazApp.applyTheme(theme)
PublicApplyTheme ==
    \E theme \in CallerThemes :
        /\ applyTheme(theme)
        /\ UNCHANGED << titleVars, pointerVars, bursts, setupVars, entranceVars >>
        /\ last' = "HelloNazApp.applyTheme"
        /\ UNCHANGED << currentThemeIndex, isAnimating, hidden, playState, btnTransform,
                        cycling, timers, frames, ripples, notifications, cycleCount >>

(***************************************************************************)
(* Timer callbacks.  A timeout leaves the pending set when it runs.         *)
(***************************************************************************)
\* setTimeout(() => { button.style.transform = 'scale(1)'; }, 150)
ScaleBack ==
    \E t \in Due("scaleBack") :
        /\ btnTransform' = "scale(1)"
        /\ timers' = timers \ { t }
        /\ UNCHANGED << titleVars, pointerVars, bursts, setupVars, entranceVars >>
        /\ last' = "scaleBack"
        /\ UNCHANGED << currentThemeIndex, isAnimating, hidden, cssVars, playState,
                        cycling, frames, ripples, notifications, cycleCount >>

\* Release that clears the flag only once the ripple is gone.
ReleaseAfterRipple ==
    \E t \in Due("release") :
        /\ isAnimating' = (isAnimating /\ ripples # {})
        /\ timers' = timers \ { t }
        /\ UNCHANGED << titleVars, pointerVars, bursts, setupVars, entranceVars >>
        /\ last' = "release"
        /\ UNCHANGED << currentThemeIndex, hidden, cssVars, playState, btnTransform,
                        cycling, frames, ripples, notifications, cycleCount >>

\* setTimeout(() => { isAnimating = false; }, CONFIG.animationDuration)
Release ==
    \E t \in Due("release") :
        /\ isAnimating' = FALSE
        /\ timers' = timers \ { t }
        /\ UNCHANGED << titleVars, pointerVars, bursts, setupVars, entranceVars >>
        /\ last' = "release"
        /\ UNCHANGED << currentThemeIndex, hidden, cssVars, playState, btnTransform,
                        cycling, frames, ripples, notifications, cycleCount >>

\* setTimeout(() => { ripple.remove(); }, 600)
RippleRemove ==
    \E t \in Due("rippleRemove") :
        /\ ripples' = { r \in ripples : r.id # t.arg }
        /\ timers' = timers \ { t }
        /\ UNCHANGED << titleVars, pointerVars, bursts, setupVars, entranceVars >>
        /\ last' = "ripple.remove"
        /\ UNCHANGED << currentThemeIndex, isAnimating, hidden, cssVars, playState,
                        btnTransform, cycling, frames, notifications, cycleCount >>

\* ColorCycleTick without the test of isAnimating.
ColorCycleTickUnguarded ==
    /\ cycling
    /\ UNCHANGED << titleVars, pointerVars, bursts, setupVars, entranceVars >>
    /\ IF ~hidden
       THEN cycleTheme /\ last' = "tick"
       ELSE UNCHANGED themeVars /\ last' = "tick skipped"
    /\ UNCHANGED << isAnimating, hidden, playState, btnTransform, cycling, timers,
                    frames, ripples, notifications >>

\* The callback of setInterval in startColorCycle.  The interval is never
\* cleared.  Its runs are not placed in time (CONFIG.colorCycleInterval is
\* not modelled): when the page was set up relative to the inputs is
\* arbitrary, and a run that is late is followed by one on schedule, so a run
\* may come at any instant.
ColorCycleTick ==
    /\ cycling
    /\ UNCHANGED << titleVars, pointerVars, bursts, setupVars, entranceVars >>
    /\ IF ~hidden /\ ~isAnimating
       THEN cycleTheme /\ last' = "tick"
       ELSE UNCHANGED themeVars /\ last' = "tick skipped"
    /\ UNCHANGED << isAnimating, hidden, playState, btnTransform, cycling, timers,
                    frames, ripples, notifications >>

\* setTimeout(() => { notification.classList.remove('show');
\*                    setTimeout(() => notification.remove(), 300); }, 2000)
NotificationHide ==
    \E t \in Due("notifHide") :
        LET n == t.arg
            N == [ notifications EXCEPT ![n].show = FALSE,
                                        ![n].log = Append(@, "hidden") ]
        IN  /\ timers' = setTimeout(timers \ { t }, "notifRemove", NotificationFade, n)
            /\ notifications' = Collect(N, frames, timers')
            /\ UNCHANGED << titleVars, pointerVars, bursts, setupVars, entranceVars >>
            /\ last' = "notification hide"
            /\ UNCHANGED << currentThemeIndex, isAnimating, hidden, cssVars, playState,
                            btnTransform, cycling, frames, ripples, cycleCount >>

\* () => notification.remove()
NotificationRemove ==
    \E t \in Due("notifRemove") :
        LET n == t.arg
            N == [ notifications EXCEPT ![n].inDOM = FALSE,
                                        ![n].log = Append(@, "removed") ]
        IN  /\ timers' = timers \ { t }
            /\ notifications' = Collect(N, frames, timers')
            /\ UNCHANGED << titleVars, pointerVars, bursts, setupVars, entranceVars >>
            /\ last' = "notification.remove"
            /\ UNCHANGED << currentThemeIndex, isAnimating, hidden, cssVars, playState,
                            btnTransform, cycling, frames, ripples, cycleCount >>

(***************************************************************************)
(* Paint frames.  A frame runs every pending requestAnimationFrame         *)
(* callback; a page that is hidden paints no frame.                        *)
(***************************************************************************)
\* The frame callback of an entering element: that of initializeAnimations
\* for the container, that of animateElement for the others.
FrameOf(el) ==
    CASE el = "container" -> "reveal container"
      [] el = "subtitle" -> "animate subtitle"
      [] OTHER -> "animate interactiveBtn"

Translate(x, y) == [ set |-> TRUE, translateX |-> x, translateY |-> y ]

\* requestAnimationFrame(() => { notification.classList.add('show'); }),
\* and the frame callbacks of the entrance sequence.
PaintFrame ==
    /\ ~hidden
    /\ frames # {}
    /\ LET toShow == { f.arg : f \in { g \in frames : g.kind = "notifShow" } }
           N == [ n \in DOMAIN notifications |->
                    IF n \in toShow
                    THEN [ notifications[n] EXCEPT !.show = TRUE,
                                                   !.log = Append(@, "shown") ]
                    ELSE notifications[n] ]
           entered == { el \in Entering : \E f \in frames : f.kind = FrameOf(el) }
       IN  /\ frames' = {}
           /\ notifications' = Collect(N, frames', timers)
           /\ revealed' = [ el \in Entering |->
                              IF el \in entered
                              THEN [ opacity |-> "1",
                                     animated |-> revealed[el].animated \/ el # "container" ]
                              ELSE revealed[el] ]
           /\ containerTransform' = IF "container" \in entered
                                    THEN Translate(0, 0) ELSE containerTransform
           /\ subtitleTransform' = IF "subtitle" \in entered
                                   THEN "translateY(0)" ELSE subtitleTransform
           /\ btnTransform' = IF "interactiveBtn" \in entered
                              THEN "translateY(0)" ELSE btnTransform
    /\ UNCHANGED << titleVars, debounced, window, particles, bursts, setupVars, entrance >>
    /\ last' = "frame"
    /\ UNCHANGED << currentThemeIndex, isAnimating, hidden, cssVars, playState,
                    cycling, timers, ripples, cycleCount >>

(***************************************************************************)
(* Time.  It passes up to the next due timer, in steps of at most Quantum; *)
(* a visible page paints its pending frame before a step of time is over.  *)
(***************************************************************************)
MinDue == MinOf({ t.due : t \in timers })

Older(age, d) == IF age + d < MaxAge THEN age + d ELSE MaxAge

\* The pending calls of a debounced listener.
Pending(fn) == { t \in timers : t.kind = fn }

Wait(fn) == IF fn = "resize" THEN ResizeWait ELSE MouseMoveWait

\* The time since the latest event of a burst, up to the delay.
Quieter(fn, quiet, d) == IF quiet + d < Wait(fn) THEN quiet + d ELSE Wait(fn)

TimePasses ==
    /\ timers # {}
    /\ frames = {} \/ hidden
    /\ LET d == IF MinDue < Quantum THEN MinDue ELSE Quantum
       IN  /\ d > 0
           /\ timers' = { [t EXCEPT !.due = @ - d] : t \in timers }
           /\ notifications' = [ n \in DOMAIN notifications |->
                                   [ notifications[n] EXCEPT !.age = Older(@, d) ] ]
           /\ bursts' = [ fn \in Debouncers |->
                            [ bursts[fn] EXCEPT !.quiet =
                                IF Pending(fn) = {} THEN @ ELSE Quieter(fn, @, d) ] ]
    /\ UNCHANGED << titleVars, pointerVars, setupVars, entranceVars >>
    /\ last' = ""
    /\ UNCHANGED << currentThemeIndex, isAnimating, hidden, cssVars, playState,
                    btnTransform, cycling, frames, ripples, cycleCount >>

(***************************************************************************)
(* The typewriter effect of the title.                                     *)
(***************************************************************************)
\* What text[index] past the end of the text, undefined, appends to a string.
UndefinedText == << "u", "n", "d", "e", "f", "i", "n", "e", "d" >>

\* text[index] as element.textContent += text[index] appends it.
CharAt(text, index) ==
    IF index < Len(text) THEN << text[index + 1] >> ELSE UndefinedText

\* clearInterval(timer)
clearInterval(T, timer) == { t \in T : t.id # timer }

\* setTimeout(() => typewriterEffect(elements.title), 500): typewriterEffect
\* up to setInterval.
TypewriterStart ==
    \E t \in Due("startTypewriter") :
        /\ timers' = setTimeout(timers \ { t }, "typewriter", typewriterSpeed, 0)
        /\ typewriter' = [ text |-> title.textContent, index |-> 0,
                           timer |-> NewTimerId(timers \ { t }) ]
        /\ title' = [ title EXCEPT !.textContent = << >>, !.opacity = "1" ]
        /\ ticks' = 0
        /\ entrance' = Append(entrance, "typewriter")
        /\ last' = "typewriterEffect"
        /\ UNCHANGED << controllerVars, pointerVars, bursts, setupVars, revealed,
                        subtitleTransform >>

\* The callback of setInterval in typewriterEffect.
TypewriterTick ==
    \E t \in Due("typewriter") :
        LET index == typewriter.index + 1
        IN  /\ title' = [ title EXCEPT
                   !.textContent = @ \o CharAt(typewriter.text, typewriter.index),
                   !.complete = @ \/ index >= Len(typewriter.text) ]
            /\ typewriter' = [ typewriter EXCEPT !.index = index ]
            /\ timers' = IF index >= Len(typewriter.text)
                         THEN clearInterval(timers, typewriter.timer)
                         ELSE (timers \ { t }) \cup { [t EXCEPT !.due = typewriterSpeed] }
            /\ ticks' = ticks + 1
            /\ last' = "typewriter tick"
            /\ UNCHANGED << controllerVars, pointerVars, bursts, setupVars, entranceVars >>

(***************************************************************************)
(* The debounced listeners of resize and mousemove.                        *)
(***************************************************************************)
\* executedFunction that sets its timeout without clearing the earlier one.
executedFunctionKeepsPending(T, timeout, fn, args) ==
    LET id == FreshId(T, Held \ { timeout })
    IN  [ timers |-> setTimeoutAs(T, id, fn, Wait(fn), 0, args), timeout |-> id ]

\* executedFunction of a debounce whose listeners share one timeout: it clears
\* the pending call of every listener.
executedFunctionSharedTimeout(T, timeout, fn, args) ==
    LET cleared == { t \in T : t.kind \notin Debouncers }
        id == FreshId(cleared, Held \ { timeout })
    IN  [ timers |-> setTimeoutAs(cleared, id, fn, Wait(fn), 0, args), timeout |-> id ]

\* executedFunction(...args) of debounce(func, wait): the timers and the
\* variable timeout it leaves.  The assignment overwrites the handle that
\* timeout held, so the new handle may be that one again.
executedFunction(T, timeout, fn, args) ==
    LET cleared == clearTimeout(T, timeout)
        id == FreshId(cleared, Held \ { timeout })
    IN  [ timers |-> setTimeoutAs(cleared, id, fn, Wait(fn), 0, args), timeout |-> id ]

\* The event starts a burst when no call is pending, else it joins the burst.
Arrived(fn, args) ==
    [ bursts EXCEPT ![fn] =
        IF Pending(fn) = {}
        THEN [ n |-> 1, args |-> args, quiet |-> 0, calls |-> 0, calledWith |-> NoArgs ]
        ELSE [ @ EXCEPT !.n = @ + 1, !.args = args, !.quiet = 0 ] ]

Called(fn, args) ==
    [ bursts EXCEPT ![fn].calls = IF @ < 2 THEN @ + 1 ELSE @,
                    ![fn].calledWith = args ]

\* A listener takes up to MaxBurst events in one burst.
Open(fn) == Pending(fn) = {} \/ bursts[fn].n < MaxBurst

\* (clientX / innerWidth - 0.5) * 2 * 10
Parallax(client, inner) == (20 * client - 10 * inner) \div inner

\* handleMouseMove(event)
handleMouseMove(event) ==
    containerTransform' = Translate(Parallax(event.clientX, window.innerWidth),
                                    Parallax(event.clientY, window.innerHeight))

\* updateParticles that makes the particles anew without removing the old.
updateParticlesRecreating ==
    \E draw \in ParticleDraws :
        particles' = [ count |-> particles.count + particleCount, draw |-> draw ]

\* updateParticles()
updateParticles ==
    \E draw \in ParticleDraws : particles' = [ particles EXCEPT !.draw = draw ]

\* handleResize()
handleResize ==
    IF "particles" \in elements THEN updateParticles ELSE UNCHANGED particles

\* The window takes a size and the resize event reaches the listener.
Resize ==
    \E size \in WindowSizes :
        /\ Open("resize")
        /\ window' = size
        /\ IF Registered("resize")
           THEN LET run == executedFunction(timers, debounced["resize"], "resize",
                                            Event("resize", 0, 0))
                IN  /\ timers' = run.timers
                    /\ debounced' = [ debounced EXCEPT !["resize"] = run.timeout ]
                    /\ bursts' = Arrived("resize", Event("resize", 0, 0))
           ELSE UNCHANGED << timers, debounced, bursts >>
        /\ last' = "resize"
        /\ UNCHANGED << setupVars, entranceVars, controllerVars, titleVars, containerTransform, particles >>

\* The pointer moves and the mousemove event reaches the listener.
MouseMove ==
    \E at \in PointerPositions :
        /\ Registered("mousemove")
        /\ Open("mousemove")
        /\ LET event == Event("mousemove", at.clientX, at.clientY)
               run == executedFunction(timers, debounced["mousemove"], "mousemove", event)
           IN  /\ timers' = run.timers
               /\ debounced' = [ debounced EXCEPT !["mousemove"] = run.timeout ]
               /\ bursts' = Arrived("mousemove", event)
        /\ last' = "mousemove"
        /\ UNCHANGED << setupVars, entranceVars, controllerVars, titleVars, window, containerTransform, particles >>

\* later() of the resize listener.
LaterResize ==
    \E t \in Due("resize") :
        /\ timers' = clearTimeout(timers \ { t }, debounced["resize"])
        /\ handleResize
        /\ bursts' = Called("resize", t.args)
        /\ last' = "handleResize"
        /\ UNCHANGED << setupVars, entranceVars, controllerVars, titleVars, debounced, window, containerTransform >>

\* later() of the mousemove listener.
LaterMouseMove ==
    \E t \in Due("mousemove") :
        /\ timers' = clearTimeout(timers \ { t }, debounced["mousemove"])
        /\ handleMouseMove(t.args)
        /\ bursts' = Called("mousemove", t.args)
        /\ last' = "handleMouseMove"
        /\ UNCHANGED << setupVars, entranceVars, controllerVars, titleVars, debounced, window, particles >>

(***************************************************************************)
(* init() and the entrance sequence.                                       *)
(***************************************************************************)
\* cacheElements that verifies the container only.
cacheElementsContainerOnly(found) == "container" \in found

\* cacheElements(): whether it returns, for the elements it found; it throws
\* otherwise, after it has assigned elements.
cacheElements(found) == Essential \subseteq found

\* setupEventListeners() and the listeners of setupAccessibility().
setupEventListeners(found) ==
    [ l \in ListenerNames |->
        CASE l = "click" -> listeners[l] + IF "interactiveBtn" \in found THEN 1 ELSE 0
          [] l = "error" -> listeners[l]
          [] OTHER -> listeners[l] + 1 ]

\* The timeouts of initializeAnimations(), set in its order.
\* initializeAnimations() with the delays of the subtitle and the button
\* exchanged.
initializeAnimationsButtonFirst(T, found) ==
    LET typed == IF "title" \in found
                 THEN setTimeout(T, "startTypewriter", TypewriterDelay, 0) ELSE T
        faded == IF "subtitle" \in found
                 THEN setTimeout(typed, "animateSubtitle", ButtonDelay, 0) ELSE typed
    IN  IF "interactiveBtn" \in found
        THEN setTimeout(faded, "animateButton", SubtitleDelay, 0) ELSE faded

initializeAnimations(T, found) ==
    LET typed == IF "title" \in found
                 THEN setTimeout(T, "startTypewriter", TypewriterDelay, 0) ELSE T
        faded == IF "subtitle" \in found
                 THEN setTimeout(typed, "animateSubtitle", SubtitleDelay, 0) ELSE typed
    IN  IF "interactiveBtn" \in found
        THEN setTimeout(faded, "animateButton", ButtonDelay, 0) ELSE faded

\* History only: what initializeAnimations() schedules, in its order.
Scheduled(found) ==
    << "reveal scheduled" >>
    \o (IF "title" \in found THEN << "typewriter scheduled" >> ELSE << >>)
    \o (IF "subtitle" \in found THEN << "subtitle scheduled" >> ELSE << >>)
    \o (IF "interactiveBtn" \in found THEN << "button scheduled" >> ELSE << >>)

\* createParticleSystem()
createParticleSystem(found) ==
    IF "particles" \in found
    THEN \E draw \in ParticleDraws :
            particles' = [ count |-> particles.count + particleCount, draw |-> draw ]
    ELSE UNCHANGED particles

\* init(), at DOMContentLoaded or at once when the document has loaded.
init ==
    /\ phase = "loading"
    /\ elements' = document
    /\ IF cacheElements(document)
       THEN /\ phase' = "ready"
            /\ listeners' = setupEventListeners(document)
            /\ revealed' = [ revealed EXCEPT !["container"].opacity = "0" ]
            /\ containerTransform' = Translate(0, 30)
            /\ frames' = frames \cup { [ kind |-> FrameOf("container"), arg |-> 0 ] }
            /\ timers' = initializeAnimations(timers, document)
            /\ entrance' = entrance \o Scheduled(document)
            /\ cycling' = TRUE
            /\ createParticleSystem(document)
            /\ UNCHANGED reported
       ELSE /\ phase' = "failed"
            /\ reported' = reported + 1
            /\ UNCHANGED << listeners, revealed, containerTransform, frames, timers,
                            entrance, cycling, particles >>
    /\ last' = "init"
    /\ UNCHANGED << currentThemeIndex, isAnimating, hidden, cssVars, playState,
                    btnTransform, ripples, notifications, cycleCount, titleVars,
                    debounced, window, bursts, document, subtitleTransform >>

\* setTimeout(() => animateElement(elements.subtitle, 'fadeInUp'), 1000):
\* animateElement up to requestAnimationFrame.
AnimateSubtitle ==
    \E t \in Due("animateSubtitle") :
        /\ timers' = timers \ { t }
        /\ revealed' = [ revealed EXCEPT !["subtitle"].opacity = "0" ]
        /\ subtitleTransform' = "translateY(20px)"
        /\ frames' = frames \cup { [ kind |-> FrameOf("subtitle"), arg |-> 0 ] }
        /\ entrance' = Append(entrance, "subtitle")
        /\ last' = "animate subtitle"
        /\ UNCHANGED << currentThemeIndex, isAnimating, hidden, cssVars, playState,
                        btnTransform, cycling, ripples, notifications, cycleCount,
                        titleVars, pointerVars, bursts, setupVars >>

\* setTimeout(() => animateElement(elements.interactiveBtn, 'fadeInUp'), 1500)
AnimateButton ==
    \E t \in Due("animateButton") :
        /\ timers' = timers \ { t }
        /\ revealed' = [ revealed EXCEPT !["interactiveBtn"].opacity = "0" ]
        /\ btnTransform' = "translateY(20px)"
        /\ frames' = frames \cup { [ kind |-> FrameOf("interactiveBtn"), arg |-> 0 ] }
        /\ entrance' = Append(entrance, "button")
        /\ last' = "animate button"
        /\ UNCHANGED << currentThemeIndex, isAnimating, hidden, cssVars, playState,
                        cycling, ripples, notifications, cycleCount, titleVars,
                        pointerVars, bursts, setupVars, subtitleTransform >>

(***************************************************************************)
(* The controller after a successful init() on a page that has every       *)
(* element, once the entrance sequence is over: the theme interval is set, *)
(* nothing else is pending.  The page may be in a background tab.          *)
(***************************************************************************)
Texts == UNION { [1..n -> TitleCharacters] : n \in 0..MaxTitleLength }

InitController ==
    /\ currentThemeIndex = 0
    /\ isAnimating = FALSE
    /\ hidden \in BOOLEAN
    /\ cssVars = NoTheme
    /\ playState = ""
    /\ cycling = TRUE
    /\ frames = {}
    /\ ripples = {}
    /\ notifications = [ n \in {} |-> 0 ]
    /\ cycleCount = 0
    /\ last = ""

\* What init() has set up on a page that has the elements of found.
InitSetup(found) ==
    /\ document = found
    /\ elements = found
    /\ listeners = [ l \in ListenerNames |->
                       IF l = "click" /\ "interactiveBtn" \notin found THEN 0 ELSE 1 ]
    /\ phase = "ready"
    /\ reported = 0

\* The entering elements of found once their frames have been painted.
InitEntered(found) ==
    /\ revealed = [ el \in Entering |->
                      IF el \in found
                      THEN [ opacity |-> "1", animated |-> el # "container" ]
                      ELSE [ opacity |-> "", animated |-> FALSE ] ]
    /\ subtitleTransform = IF "subtitle" \in found THEN "translateY(0)" ELSE ""

\* The listeners before any event, the container before any parallax offset.
InitPointer ==
    /\ debounced = [ fn \in Debouncers |-> 0 ]
    /\ window \in WindowSizes
    /\ containerTransform = Translate(0, 0)
    /\ bursts = [ fn \in Debouncers |->
                    [ n |-> 0, args |-> NoArgs, quiet |-> 0, calls |-> 0,
                      calledWith |-> NoArgs ] ]

\* The title once the typewriter effect is over; timer still holds the
\* handle of the cleared interval.
InitTitle ==
    /\ title = [ textContent |-> << "N", "a", "z" >>, opacity |-> "1", complete |-> TRUE ]
    /\ typewriter = [ text |-> << "N", "a", "z" >>, index |-> 3, timer |-> 1 ]
    /\ ticks = 3

Init ==
    /\ InitController
    /\ InitTitle
    /\ InitPointer
    /\ InitSetup(ElementNames)
    /\ InitEntered(ElementNames)
    /\ entrance = Scheduled(ElementNames) \o << "typewriter", "subtitle", "button" >>
    /\ btnTransform = "translateY(0)"
    /\ particles = [ count |-> particleCount, draw |-> "one draw" ]
    /\ window = [ innerWidth |-> 400, innerHeight |-> 400 ]
    /\ timers = {}

\* The callbacks of the program's own timers and frames, and time.
Callbacks ==
    \/ ScaleBack
    \/ Release
    \/ RippleRemove
    \/ NotificationHide
    \/ NotificationRemove
    \/ PaintFrame
    \/ TimePasses

\* The theme controller: the inputs that reach the theme and the cooldown.
Next ==
    \/ Click
    \/ Keydown
    \/ VisibilityChange
    \/ PublicCycleTheme
    \/ PublicApplyTheme
    \/ ColorCycleTick
    \/ Callbacks

Spec == Init /\ [][Next]_vars

\* The page whose colours only the controller sets: no caller hands a theme of
\* their own to window.HelloNazApp.applyTheme.
NextThemes ==
    \/ Click
    \/ Keydown
    \/ VisibilityChange
    \/ PublicCycleTheme
    \/ ColorCycleTick
    \/ Callbacks

SpecThemes == Init /\ [][NextThemes]_vars

\* The notification display: calls of the public showNotification at any
\* instant, on a page that is shown and hidden at any instant.
NextNotify ==
    \/ PublicShowNotification
    \/ VisibilityChange
    \/ NotificationHide
    \/ NotificationRemove
    \/ PaintFrame
    \/ TimePasses

SpecNotify == Init /\ [][NextNotify]_vars

\* A page of a container and a title only, whose init() has just run and
\* whose container has been revealed: any title text up to MaxTitleLength, and
\* typewriterEffect due after its delay.
InitTypewriter ==
    /\ InitController
    /\ title \in { [ textContent |-> text, opacity |-> "", complete |-> FALSE ] :
                     text \in Texts }
    /\ typewriter = [ text |-> << >>, index |-> 0, timer |-> 0 ]
    /\ ticks = 0
    /\ InitPointer
    /\ InitSetup(Essential)
    /\ InitEntered({ "container" })
    /\ entrance = Scheduled(Essential)
    /\ btnTransform = ""
    /\ particles = [ count |-> 0, draw |-> "no draw" ]
    /\ window = [ innerWidth |-> 400, innerHeight |-> 400 ]
    /\ timers = setTimeout({}, "startTypewriter", TypewriterDelay, 0)

NextTypewriter ==
    \/ TypewriterStart
    \/ TypewriterTick
    \/ TimePasses

SpecTypewriter == InitTypewriter /\ [][NextTypewriter]_vars

\* The debounced listeners: resize and mousemove events at any instant.
InitDebounce ==
    /\ InitController
    /\ ~hidden
    /\ InitTitle
    /\ InitPointer
    /\ InitSetup(ElementNames)
    /\ InitEntered(ElementNames)
    /\ entrance = Scheduled(ElementNames) \o << "typewriter", "subtitle", "button" >>
    /\ btnTransform = "translateY(0)"
    /\ particles = [ count |-> particleCount, draw |-> "one draw" ]
    /\ timers = {}

NextDebounce ==
    \/ Resize
    \/ MouseMove
    \/ LaterResize
    \/ LaterMouseMove
    \/ TimePasses

SpecDebounce == InitDebounce /\ [][NextDebounce]_vars

\* A page as the script finds it, with any of the elements, before init():
\* only the error listener is registered.
InitLoading ==
    /\ document \in SUBSET ElementNames
    /\ elements = {}
    /\ listeners = [ l \in ListenerNames |-> IF l = "error" THEN 1 ELSE 0 ]
    /\ phase = "loading"
    /\ reported = 0
    /\ revealed = [ el \in Entering |-> [ opacity |-> "", animated |-> FALSE ] ]
    /\ subtitleTransform = ""
    /\ entrance = << >>
    /\ currentThemeIndex = 0
    /\ isAnimating = FALSE
    /\ hidden \in BOOLEAN
    /\ cssVars = NoTheme
    /\ playState = ""
    /\ btnTransform = ""
    /\ cycling = FALSE
    /\ frames = {}
    /\ ripples = {}
    /\ notifications = [ n \in {} |-> 0 ]
    /\ cycleCount = 0
    /\ last = ""
    /\ title = [ textContent |-> << "N", "a", "z" >>, opacity |-> "", complete |-> FALSE ]
    /\ typewriter = [ text |-> << >>, index |-> 0, timer |-> 0 ]
    /\ ticks = 0
    /\ debounced = [ fn \in Debouncers |-> 0 ]
    /\ window = [ innerWidth |-> 400, innerHeight |-> 400 ]
    /\ containerTransform = [ set |-> FALSE, translateX |-> 0, translateY |-> 0 ]
    /\ particles = [ count |-> 0, draw |-> "no draw" ]
    /\ bursts = [ fn \in Debouncers |->
                    [ n |-> 0, args |-> NoArgs, quiet |-> 0, calls |-> 0,
                      calledWith |-> NoArgs ] ]
    /\ timers = {}

\* init() and what follows it with no input but resizes of the window and
\* changes of visibility.
NextLoading ==
    \/ init
    \/ TypewriterStart
    \/ TypewriterTick
    \/ AnimateSubtitle
    \/ AnimateButton
    \/ PaintFrame
    \/ VisibilityChange
    \/ Resize
    \/ LaterResize
    \/ TimePasses

SpecLoading == InitLoading /\ [][NextLoading]_vars

\* Time passes, a due timeout runs and a visible page paints its frames.
FairSpecLoading ==
    /\ SpecLoading
    /\ SF_vars(TimePasses)
    /\ WF_vars(PaintFrame)
    /\ WF_vars(TypewriterStart)
    /\ WF_vars(TypewriterTick)
    /\ WF_vars(AnimateSubtitle)
    /\ WF_vars(AnimateButton)
    /\ WF_vars(LaterResize)

(***************************************************************************)
(* Fairness: time passes, and a due callback runs.                         *)
(***************************************************************************)
Fairness ==
    /\ SF_vars(TimePasses)
    /\ WF_vars(PaintFrame)
    /\ WF_vars(ScaleBack)
    /\ WF_vars(Release)
    /\ WF_vars(RippleRemove)
    /\ WF_vars(NotificationHide)
    /\ WF_vars(NotificationRemove)

FairSpec == Spec /\ Fairness

\* The triggers of the action and the calls of the public showNotification,
\* with the callbacks they leave behind.
NextTransient ==
    \/ Click
    \/ PublicShowNotification
    \/ VisibilityChange
    \/ Callbacks

SpecTransient == Init /\ [][NextTransient]_vars

FairSpecTransient == SpecTransient /\ Fairness

FairSpecDebounce ==
    /\ SpecDebounce
    /\ SF_vars(TimePasses)
    /\ WF_vars(LaterResize)
    /\ WF_vars(LaterMouseMove)

(***************************************************************************)
(* Properties of theme cycling.                                            *)
(***************************************************************************)
\* The callbacks that perform a theme-cycle step.
CycleSteps == { "tick", "click", "activation", "HelloNazApp.cycleTheme" }

\* C1: every theme-cycle step (a tick that passes its guard, an accepted
\* trigger, the public cycleTheme) moves the index from i to (i + 1) mod 5, and
\* N steps from index 0 with no reset in between leave the index at N mod 5.
CycleStepsModFive ==
    /\ [](cycleCount < MaxCycles => currentThemeIndex = cycleCount % 5)
    /\ [][last' \in CycleSteps => currentThemeIndex' = (currentThemeIndex + 1) % 5]_vars

\* More cycle steps than the palette has themes, the last one by the interval.
CycleStepsWrapped ==
    cycleCount = 6 /\ currentThemeIndex = 1 /\ last = "tick"

\* C2: in every reachable state the index is an integer in 0..4.
IndexInPalette == currentThemeIndex \in 0..4

\* The last theme of the palette, reached during a cooldown on a hidden page.
IndexAtPaletteEnd == currentThemeIndex = 4 /\ isAnimating /\ hidden

\* C3: an Escape keydown sets the index to 0 and applies the first theme, from
\* every index, whatever isAnimating, the visibility and the event's target
\* are, and leaves isAnimating as it is.
EscapeResets ==
    [][last' = "Escape" =>
          /\ currentThemeIndex' = 0
          /\ cssVars' = ThemeAt(0)
          /\ isAnimating' = isAnimating]_vars

\* Escape during a cooldown (so after a cycle step) on a hidden page.
EscapeDuringCooldown ==
    /\ last = "Escape"
    /\ isAnimating
    /\ hidden
    /\ currentThemeIndex = 0
    /\ cssVars = ThemeAt(0)

(***************************************************************************)
(* Properties of the interactive action.                                   *)
(***************************************************************************)
Triggers == { "click", "activation" }

\* C4: an invocation of the action handler while isAnimating is set (by a
\* click or by Space/Enter on the button) changes nothing: not the index, not
\* the flag, no ripple, no notification; an accepted one makes one cycle step;
\* Space/Enter on another target does not invoke the handler.
SecondTriggerIgnored ==
    /\ [][last' \in { "click ignored", "activation ignored" } =>
              isAnimating /\ UNCHANGED programVars]_vars
    /\ [][last' \in Triggers =>
              /\ ~isAnimating /\ isAnimating'
              /\ currentThemeIndex' = (currentThemeIndex + 1) % 5
              /\ Cardinality(ripples') = Cardinality(ripples) + 1
              /\ Cardinality(DOMAIN notifications') =
                     Cardinality(DOMAIN notifications) + 1]_vars
    /\ [][last' = "activation elsewhere" => UNCHANGED programVars]_vars

\* Two invocations in one cooldown window, the second ignored: one cycle step,
\* one ripple and one notification in all.
TriggeredTwiceInWindow ==
    /\ last \in { "click ignored", "activation ignored" }
    /\ isAnimating
    /\ cycleCount = 1
    /\ Cardinality(ripples) = 1
    /\ Cardinality(DOMAIN notifications) = 1

ReleaseTimers == { t \in timers : t.kind = "release" }

\* C5: every accepted trigger sets isAnimating and arms its release for the
\* cooldown delay; while the flag is set exactly one release is pending; the
\* release clears the flag whether or not the ripple and the notification of
\* the trigger are still there; the flag never stays set.
CooldownReleased ==
    /\ [](isAnimating => /\ Cardinality(ReleaseTimers) = 1
                         /\ \A t \in ReleaseTimers : t.due <= animationDuration)
    /\ [][last' \in Triggers =>
              \E t \in timers' : t.kind = "release" /\ t.due = animationDuration]_vars
    /\ [][last' = "release" => ~isAnimating']_vars
    /\ isAnimating ~> ~isAnimating

\* The release has run while the ripple and the notification of its trigger
\* are still in the page.
ReleasedBeforeEffectsEnd ==
    /\ last = "release"
    /\ ~isAnimating
    /\ ripples # {}
    /\ \E n \in DOMAIN notifications : notifications[n].inDOM

\* C6: a run of the theme interval advances the index only if the page is
\* visible and isAnimating is false; a run on a hidden page or during a
\* cooldown leaves the index and the colours as they are, and the interval
\* stays set.
TickGuarded ==
    [][last' \in { "tick", "tick skipped" } =>
          /\ IF hidden \/ isAnimating
             THEN UNCHANGED << currentThemeIndex, cssVars >>
             ELSE currentThemeIndex' = (currentThemeIndex + 1) % 5
          /\ cycling']_vars

\* A run of the interval during a cooldown, on a visible page.
TickSkippedInCooldown ==
    last = "tick skipped" /\ isAnimating /\ ~hidden /\ cycling

(***************************************************************************)
(* Properties of the notification display.                                 *)
(***************************************************************************)
Lifecycle == << "inserted", "shown", "hidden", "removed" >>

IsPrefix(p, q) == Len(p) <= Len(q) /\ \A i \in 1..Len(p) : p[i] = q[i]

\* C8: each notification goes through inserted, shown, hidden, removed in this
\* order; it is removed no earlier than the visible plus the fade duration
\* after it was created, and never while it carries the shown marker.
NotificationLifecycleOrdered ==
    \A n \in DOMAIN notifications :
        /\ IsPrefix(notifications[n].log, Lifecycle)
        /\ ~notifications[n].inDOM =>
               /\ notifications[n].age >= NotificationVisible + NotificationFade
               /\ ~notifications[n].show

LifecycleTimers(n) ==
    { t \in timers : t.kind \in { "notifHide", "notifRemove" } /\ t.arg = n }

\* C9: each call of showNotification creates one more notification object and
\* leaves every other notification and every pending timer as it is; the
\* hide and remove steps change one notification only and a frame only those
\* whose callback it runs; a notification in the page has exactly one hide or
\* remove step to come and a removed one has none, so it is removed once.
NotificationsIndependent ==
    /\ [](\A n \in DOMAIN notifications :
              Cardinality(LifecycleTimers(n)) = IF notifications[n].inDOM THEN 1 ELSE 0)
    /\ [][last' = "HelloNazApp.showNotification" =>
              /\ \E n \in DOMAIN notifications' \ DOMAIN notifications :
                     DOMAIN notifications' = DOMAIN notifications \cup { n }
              /\ \A m \in DOMAIN notifications : notifications'[m] = notifications[m]
              /\ timers \subseteq timers'
              /\ frames \subseteq frames']_vars
    /\ [][last' \in { "notification hide", "notification.remove" } =>
              \E n \in DOMAIN notifications :
                  \A m \in DOMAIN notifications \ { n } :
                      /\ m \in DOMAIN notifications'
                      /\ notifications'[m] = notifications[m]
                      /\ LifecycleTimers(m) \subseteq timers']_vars
    /\ [][last' = "frame" =>
              \A m \in DOMAIN notifications :
                  (\A f \in frames : f.arg # m) =>
                      m \in DOMAIN notifications' /\ notifications'[m] = notifications[m]]_vars

\* The first of two notifications has been removed while the second, made by
\* a later call with the same message, is still shown.
FirstRemovedSecondShown ==
    /\ last = "notification.remove"
    /\ DOMAIN notifications = { 2 }
    /\ notifications[2].inDOM
    /\ notifications[2].show
    /\ notifications[2].age > 0

(***************************************************************************)
(* Properties of the typewriter effect.                                    *)
(***************************************************************************)
TypewriterStarted == typewriter.timer # 0

\* C7: for a title text of length L >= 0 the effect makes exactly L reveal
\* ticks, each appending the next character of the text; the title is marked
\* complete on the L-th tick and not before; the interval is stopped then;
\* the text revealed in the end is the original text.
TypewriterRevealsTitle ==
    TypewriterStarted =>
        /\ ticks <= Len(typewriter.text)
        /\ title.textContent = SubSeq(typewriter.text, 1, ticks)
        /\ title.complete => ticks = Len(typewriter.text)
        /\ title.complete => ~ \E t \in timers : t.kind = "typewriter"

\* The same for a title text that is not empty.
TypewriterRevealsNonEmptyTitle ==
    Len(typewriter.text) > 0 => TypewriterRevealsTitle

(***************************************************************************)
(* Properties of the debounced listeners.                                  *)
(***************************************************************************)
LaterOf(fn) == IF fn = "resize" THEN "handleResize" ELSE "handleMouseMove"

\* C10: a burst of n >= 1 events on a debounced listener, each arriving
\* before the delay of the one before has elapsed, leads to exactly one call
\* of the wrapped function: at most one call is pending at any instant, it
\* carries the arguments of the latest event, the call is made once the full
\* delay has passed since the latest event, with the arguments of that
\* event, and it is made in the end.
DebouncedOnce ==
    /\ [](\A fn \in Debouncers :
            /\ Cardinality(Pending(fn)) <= 1
            /\ bursts[fn].calls <= 1
            /\ \A t \in Pending(fn) :
                  /\ bursts[fn].calls = 0
                  /\ t.args = bursts[fn].args
                  /\ t.due = Wait(fn) - bursts[fn].quiet)
    /\ [][\A fn \in Debouncers :
            last' = LaterOf(fn) =>
                /\ Pending(fn) # {}
                /\ bursts[fn].quiet = Wait(fn)
                /\ bursts'[fn].calls = 1
                /\ bursts'[fn].calledWith = bursts[fn].args
                /\ Pending(fn)' = {}]_vars
    /\ \A fn \in Debouncers : (Pending(fn) # {}) ~> (bursts[fn].calls = 1)

\* A burst of MaxBurst pointer events has ended in its one call, made with
\* the position of the latest event.
BurstCalledOnce ==
    /\ last = "handleMouseMove"
    /\ bursts["mousemove"].n = MaxBurst
    /\ bursts["mousemove"].calls = 1
    /\ bursts["mousemove"].calledWith = Event("mousemove", 0, 200)
    /\ containerTransform.set /\ containerTransform.translateX = -10

(***************************************************************************)
(* Properties of the particle system.                                      *)
(***************************************************************************)
\* C11: once init() has succeeded there are exactly particleCount (50)
\* particles if the page has a particle host and none if it has not, before
\* and after any number of resizes; a debounced resize call leaves the count
\* as it is, rewriting positions only, and changes nothing without a host;
\* nothing but init() and that call touches the particles.
ParticleCountKept ==
    /\ [](particles.count = IF phase = "ready" /\ "particles" \in document
                            THEN particleCount ELSE 0)
    /\ [][/\ last' = "handleResize" =>
                /\ particles'.count = particles.count
                /\ "particles" \notin document => particles' = particles
          /\ particles' # particles => last' \in { "init", "handleResize" }]_vars

\* A burst of resizes on a page with a host has ended in the call that drew
\* new positions for the 50 particles.
ResizedTwiceWithHost ==
    /\ last = "handleResize"
    /\ "particles" \in document
    /\ particles.count = particleCount
    /\ particles.draw = "another draw"
    /\ bursts["resize"].n > 1

(***************************************************************************)
(* Properties of init().                                                   *)
(***************************************************************************)
\* The listeners of setupEventListeners.
EventListeners == { "click", "keydown", "resize", "mousemove", "visibilitychange" }

\* The page as the script found it: nothing registered, scheduled, created or
\* applied.
Static ==
    /\ \A l \in ListenerNames \ { "error" } : listeners[l] = 0
    /\ timers = {} /\ frames = {} /\ ~cycling
    /\ entrance = << >>
    /\ particles.count = 0
    /\ currentThemeIndex = 0 /\ cssVars = NoTheme
    /\ playState = ""
    /\ \A el \in Entering : revealed[el].opacity = ""

\* C12, as stated: init() fails exactly when the container or the title is
\* missing, it then reports the error and leaves the page static; when it
\* succeeds every listener of setupEventListeners is registered exactly once
\* and the theme interval is set.
EveryListenerOnceOnSuccess ==
    /\ phase = "failed" => reported = 1 /\ Static
    /\ phase = "ready" => /\ \A l \in EventListeners : listeners[l] = 1
                          /\ cycling
                          /\ reported = 0

\* C12, amended: init() runs once; it fails exactly when the container or
\* the title is missing, then reports the error once and leaves the page
\* static whatever resizes and visibility changes follow; when it succeeds
\* the keydown, resize, mousemove and visibilitychange listeners are
\* registered exactly once, the click listener once if the page has the
\* button and not at all if it has not, and the theme interval is set.
InitAbortsOrRegisters ==
    /\ [](/\ phase # "loading" => (phase = "failed" <=> ~(Essential \subseteq document))
          /\ phase = "loading" => reported = 0 /\ Static
          /\ phase = "failed" => reported = 1 /\ Static
          /\ phase = "ready" =>
                /\ \A l \in EventListeners \ { "click" } : listeners[l] = 1
                /\ listeners["click"] = IF "interactiveBtn" \in document THEN 1 ELSE 0
                /\ listeners["keydown Tab"] = 1 /\ listeners["mousedown"] = 1
                /\ cycling
                /\ reported = 0)
    /\ [][last' = "init" => phase = "loading" /\ phase' # "loading"]_vars
    /\ [][phase # "loading" => UNCHANGED << phase, listeners, reported, cycling >>]_vars

\* A page with a container and no title: init() has failed, and the page has
\* since been resized and hidden or shown.
FailedThenResized ==
    /\ phase = "failed"
    /\ "container" \in document /\ "title" \notin document
    /\ last = "visibilitychange"
    /\ window.innerWidth = 800

(***************************************************************************)
(* Properties of the public handle.                                        *)
(***************************************************************************)
\* The style variables applyTheme writes for a theme.
Colours(theme) ==
    [ primary |-> theme.primary, secondary |-> theme.secondary, accent |-> theme.accent ]

CallerColours == { Colours(theme) : theme \in CallerThemes }

EntranceOf(found) ==
    Scheduled(found)
    \o << "typewriter" >>
    \o (IF "subtitle" \in found THEN << "subtitle" >> ELSE << >>)
    \o (IF "interactiveBtn" \in found THEN << "button" >> ELSE << >>)

EntranceTimers ==
    [ typewriter |-> "startTypewriter", subtitle |-> "animateSubtitle",
      button |-> "animateButton" ]

Started(step) == \E i \in 1..Len(entrance) : entrance[i] = step

Expected(step) ==
    \E i \in 1..Len(EntranceOf(elements)) : EntranceOf(elements)[i] = step

\* C15: after a successful init() the entrance runs once and in order: the
\* reveal of the container is scheduled first, then the typewriter starts, then
\* the subtitle animation, then the button animation; each step of an element
\* the page has starts once and no more, its timeout pending until it does, and
\* a page without subtitle or button runs the other steps all the same.  A
\* failed init() starts nothing.
EntranceOneShot ==
    /\ [](phase # "ready" => entrance = << >>)
    /\ [](phase = "ready" =>
            /\ IsPrefix(Scheduled(elements), entrance)
            /\ IsPrefix(entrance, EntranceOf(elements))
            /\ \A step \in DOMAIN EntranceTimers :
                  (\E t \in timers : t.kind = EntranceTimers[step])
                     <=> (Expected(step) /\ ~Started(step)))
    /\ (phase = "ready") ~> (entrance = EntranceOf(elements))

\* On a page without subtitle the button animation has started, after the
\* typewriter, and the container has been revealed.
EntranceWithoutSubtitle ==
    /\ phase = "ready" /\ elements = ElementNames \ { "subtitle" }
    /\ entrance = << "reveal scheduled", "typewriter scheduled", "button scheduled",
                     "typewriter", "button" >>
    /\ last = "animate button"
    /\ revealed["container"].opacity = "1"

\* The steps that call applyTheme.
ThemeWriters == CycleSteps \cup { "Escape" }

\* C16: while no caller applies a theme of their own, the style variables are
\* unset until the first theme is applied and from then on hold the colours of
\* THEMES[currentThemeIndex]; only a cycle step or an Escape reset changes
\* them, and each of these leaves them at the theme of the new index.
ColoursFollowIndex ==
    /\ [](cssVars = NoTheme \/ cssVars = Colours(ThemeAt(currentThemeIndex)))
    /\ [][last' \in ThemeWriters =>
            cssVars' = Colours(ThemeAt(currentThemeIndex'))]_vars
    /\ [][cssVars' # cssVars \/ currentThemeIndex' # currentThemeIndex =>
            last' \in ThemeWriters]_vars
    /\ [][cssVars # NoTheme => cssVars' # NoTheme]_vars

\* An activation by key on a hidden page has moved the index to the last theme
\* and applied it.
LastThemeByActivation ==
    /\ last = "activation"
    /\ hidden
    /\ currentThemeIndex = 4
    /\ cssVars = Colours(ThemeAt(4))

\* The steps of a listener: its event and the call of its later().
StepsOf(fn) == { fn, LaterOf(fn) }

\* C17: the listeners of resize and mousemove keep their pending calls apart:
\* each has at most one pending, and neither an event on one listener nor the
\* call it ends in changes the other's pending call, its remaining wait, its
\* handle or the number of its calls.
DebouncersSeparate ==
    /\ [](\A fn \in Debouncers : Cardinality(Pending(fn)) <= 1)
    /\ [](\A fn \in Debouncers : \A t \in Pending(fn) : t.id = debounced[fn])
    /\ [][\A fn \in Debouncers : \A other \in Debouncers \ { fn } :
            last' \in StepsOf(fn) =>
                /\ Pending(other)' = Pending(other)
                /\ debounced'[other] = debounced[other]
                /\ bursts'[other] = bursts[other]]_vars

\* A mousemove event has arrived while a resize is pending with a part of its
\* wait over; both calls are pending now.
MoveWhileResizePending ==
    /\ last = "mousemove"
    /\ Pending("mousemove") # {}
    /\ \E t \in Pending("resize") : t.due < ResizeWait /\ t.due > 0

\* The steps that make a ripple or a notification.
Makers == { "click", "HelloNazApp.showNotification" }

\* Nothing of an action or a notification is left in the page.
Settled ==
    /\ ripples = {}
    /\ \A n \in DOMAIN notifications : ~notifications[n].inDOM
    /\ ~isAnimating

\* C18: ripples and notifications do not stay: a ripple in the button has the
\* timeout that removes it pending, a notification in the page the timeout
\* that hides it or the one that removes it; each ripple and each notification
\* is removed in the end, and once no trigger is accepted and no notification
\* is asked for any more, the page comes to hold no ripple and no
\* notification, with isAnimating false, and stays so.
TransientsRemoved ==
    /\ [](\A r \in ripples :
            \E t \in timers : t.kind = "rippleRemove" /\ t.arg = r.id)
    /\ [](\A n \in DOMAIN notifications :
            notifications[n].inDOM =>
                \E t \in timers : t.kind \in { "notifHide", "notifRemove" } /\ t.arg = n)
    /\ [][Settled /\ last' \notin Makers => Settled']_vars
    /\ \A id \in 1..MaxNotifications :
          /\ ([ id |-> id ] \in ripples) ~> ([ id |-> id ] \notin ripples)
          /\ (id \in DOMAIN notifications /\ notifications[id].inDOM)
                ~> ~(id \in DOMAIN notifications /\ notifications[id].inDOM)
    /\ (<>[][last' \notin Makers]_vars) => <>[]Settled

\* The notification of a click has been removed on a hidden page, after the
\* ripple, while a notification a caller asked for is still shown; the
\* cooldown is over.
ClickNotificationGone ==
    /\ last = "notification.remove"
    /\ hidden
    /\ ripples = {}
    /\ ~isAnimating
    /\ \E n \in DOMAIN notifications :
          /\ ~notifications[n].inDOM
          /\ notifications[n].message = ClickMessage
    /\ \E n \in DOMAIN notifications :
          /\ notifications[n].inDOM
          /\ notifications[n].message # ClickMessage

====
